---- MODULE Spec2Model ----
(***************************************************************************)
(* Model of the commit-message extension: ConfigurationManager (settings   *)
(* cache + change listener, validation), OpenAIProvider (generateResponse's *)
(* truncate-and-retry loop, isAvailable, refreshModels), DiffSimplifier     *)
(* (line-oriented diff compressor), SvnProvider (diff, commit, input box)   *)
(* and ReviewCodeCommand (batch review).                                    *)
(*                                                                         *)
(* The specifications share the variables:                                 *)
(*   Spec       - the configuration manager                                *)
(*   SpecAI     - one generateResponse call against an arbitrary vendor    *)
(*   SpecDiff   - DiffSimplifier.simplify applied to bounded diffs         *)
(*   SpecScm    - the operations of an SvnProvider                         *)
(*   SpecReview - one ReviewCodeCommand.execute call                       *)
(*   SpecProv   - the provider's probes and validateConfiguration          *)
(*   SpecLine   - DiffSimplifier.simplify applied to single lines          *)
(*   SpecLife   - getInstance / dispose of the configuration manager       *)
(***************************************************************************)
EXTENDS Integers, Sequences, FiniteSets, TLC

VARIABLES
    \* ---- ConfigurationManager ----
    store,          \* the editor's effective settings: leaf key -> value
    configuration,  \* this.configuration: the WorkspaceConfiguration handle
    configCache,    \* this.configCache: Map<string, any>
    cfgLast,        \* observation of the last operation (what it was, what it returned)
    \* ---- OpenAIProvider.generateResponse ----
    aiPc,           \* "idle" | "calling" | "returned" | "thrown"
    aiDiff,         \* params.diff
    aiModelInput,   \* params.model?.maxTokens?.input (0 = not given)
    retries,        \* let retries
    maxInputLength, \* let maxInputLength
    aiSent,         \* the user prompts handed to the vendor, in call order
    aiOutcomes,     \* what the vendor answered to each call, in call order
    aiErrors,       \* number of NotificationHandler.error calls
    aiWarns,        \* number of NotificationHandler.warn calls
    aiResult,       \* what the caller gets: returned response or thrown error
    \* ---- DiffSimplifier ----
    diffSettings,   \* what getDiffConfig() reads from the settings
    diffConfigCache,\* DiffSimplifier.configCache
    diffPc,         \* "ready" | "once" | "twice"
    diffIn,         \* argument of the last simplify call
    diffOut,        \* its return value
    diffPrev,       \* return value of the call before it
    diffOrigin,     \* for each output line, the input line that produced it
    \* ---- SvnProvider ----
    scmApi,         \* this.api: "extension" (from the constructor) | "api" (from getAPI())
    scmRepoOpen,    \* the SVN extension has a repository open
    scmInputBox,    \* repository.inputBox.value
    scmWritten,     \* {m} while m is the last write to the input box and setCommitInput made it
    scmLast,        \* observation of the last SvnProvider operation
    \* ---- ReviewCodeCommand.execute ----
    revPc,          \* "idle" | "diffing" | "reviewing" | "done"
    revFiles,       \* the resources of this execution
    revDiff,        \* per file: "pending" | "diff" | "empty" | "failed"
    revReview,      \* per file: "none" | "pending" | "content" | "empty" | "failed"
    revWarned,      \* per file: NotificationHandler.warn calls naming the file
    revLogged,      \* per file: console.error calls naming the file
    revNotes,       \* the other notifications of the command (message keys)
    revPanel,       \* the result panels shown: each the set of files it has a section for
    \* ---- OpenAIProvider probes, validateConfiguration ----
    aiCatalog,      \* the module-level `models` array (ids)
    provLast,       \* observation of the last of these operations
    \* ---- ConfigurationManager.getInstance / dispose ----
    lifeInstance,   \* ConfigurationManager.instance: an object, or NoInstance
    lifeObjs,       \* the manager objects constructed so far, by identity
    lifeLast        \* observation of the last lifecycle operation

cfgVars == <<store, configuration, configCache, cfgLast>>
aiVars == <<aiPc, aiDiff, aiModelInput, retries, maxInputLength, aiSent,
            aiOutcomes, aiErrors, aiWarns, aiResult>>
diffVars == <<diffSettings, diffConfigCache, diffPc, diffIn, diffOut,
              diffPrev, diffOrigin>>
scmVars == <<scmApi, scmRepoOpen, scmInputBox, scmWritten, scmLast>>
revVars == <<revPc, revFiles, revDiff, revReview, revWarned, revLogged, revNotes,
             revPanel>>
provVars == <<aiCatalog, provLast>>
lifeVars == <<lifeInstance, lifeObjs, lifeLast>>
extVars == <<scmVars, revVars, provVars, lifeVars>>
vars == <<cfgVars, aiVars, diffVars, extVars>>

Min(a, b) == IF a < b THEN a ELSE b
Max(a, b) == IF a > b THEN a ELSE b

\* String.prototype.startsWith, on strings as sequences of characters.
startsWith(s, p) == Len(s) >= Len(p) /\ SubSeq(s, 1, Len(p)) = p

(***************************************************************************)
(*                        ConfigurationManager                             *)
(***************************************************************************)

\* Leaf key paths of the configuration schema (relative to the extension
\* namespace), in schema traversal order.
SchemaLeaves == <<"base.provider", "providers.openai.apiKey", "providers.ollama.baseUrl">>

Keys == {SchemaLeaves[i] : i \in DOMAIN SchemaLeaves}

\* Setting values. Undefined is what get() yields for a setting that is unset.
Undefined == "undefined"
Values == {Undefined, "v1", "v2"}

\* A Map entry that does not exist (Map.has(key) = false).
Absent == "absent"

NoOp == [op |-> "none", key |-> "", useCache |-> FALSE, ret |-> Undefined,
         changed |-> {}, reinit |-> <<>>, saw |-> {}]

\* The characters of a leaf key path.
KeyChars(key) ==
    CASE key = "base.provider" ->
            <<"b", "a", "s", "e", ".", "p", "r", "o", "v", "i", "d", "e", "r">>
      [] key = "providers.openai.apiKey" ->
            <<"p", "r", "o", "v", "i", "d", "e", "r", "s", ".", "o", "p", "e", "n",
              "a", "i", ".", "a", "p", "i", "K", "e", "y">>
      [] key = "providers.ollama.baseUrl" ->
            <<"p", "r", "o", "v", "i", "d", "e", "r", "s", ".", "o", "l", "l", "a",
              "m", "a", ".", "b", "a", "s", "e", "U", "r", "l">>

\* key.split(".")[0]
RECURSIVE firstSegment(_)
firstSegment(s) ==
    IF s = <<>> \/ Head(s) = "." THEN <<>>
    ELSE <<Head(s)>> \o firstSegment(Tail(s))

ProvidersWord == <<"p", "r", "o", "v", "i", "d", "e", "r", "s">>

\* The providers handleConfigurationChange knows, in the order it looks at
\* them: the name it reinitializes and the characters after "providers.".
KnownProviders == <<
    [name |-> "OpenAI", id |-> <<"o", "p", "e", "n", "a", "i">>],
    [name |-> "Ollama", id |-> <<"o", "l", "l", "a", "m", "a">>],
    [name |-> "ZhipuAI", id |-> <<"z", "h", "i", "p", "u", "a", "i">>],
    [name |-> "DashScope", id |-> <<"d", "a", "s", "h", "s", "c", "o", "p", "e">>],
    [name |-> "Doubao", id |-> <<"d", "o", "u", "b", "a", "o">>] >>

\* changedKeys.some((key) => key.startsWith("providers.<id>"))
someKeyStartsWith(changedKeys, id) ==
    \E i \in DOMAIN changedKeys :
        startsWith(KeyChars(changedKeys[i]), ProvidersWord \o <<".">> \o id)

\* Mutant of handleConfigurationChange: a change under "providers"
\* reinitializes every known provider.
handleConfigurationChange_everyProvider(changedKeys) ==
    LET providerChanges == {firstSegment(KeyChars(changedKeys[i])) :
                                i \in DOMAIN changedKeys}
    IN  IF ProvidersWord \in providerChanges
        THEN [i \in DOMAIN KnownProviders |-> KnownProviders[i].name]
        ELSE <<>>

\* handleConfigurationChange(changedKeys): the providers handed to
\* AIProviderFactory.reinitializeProvider, in call order.
handleConfigurationChange(changedKeys) ==
    LET providerChanges == {firstSegment(KeyChars(changedKeys[i])) :
                                i \in DOMAIN changedKeys}
        hit == SelectSeq(KnownProviders,
                         LAMBDA p : someKeyStartsWith(changedKeys, p.id))
    IN  IF ProvidersWord \in providerChanges
        THEN [i \in DOMAIN hit |-> hit[i].name]
        ELSE <<>>

\* getChangedConfigurationKeys: walk the schema, keep the leaves the event affects.
\* `affected` is the event's affectsConfiguration predicate as a set of leaves.
getChangedConfigurationKeys(affected) ==
    SelectSeq(SchemaLeaves, LAMBDA k : k \in affected)

\* getUpdatedValue: this.configuration.get(key) on the handle held right now.
getUpdatedValue(handle, key) == handle[key]

\* Mutant of updateConfigCache: every key of the schema is refreshed, not only
\* the changed ones.
RECURSIVE refreshKeys(_, _, _)
refreshKeys(cache, handle, keys) ==
    IF keys = <<>> THEN cache
    ELSE refreshKeys(IF handle[Head(keys)] # Undefined
                     THEN [cache EXCEPT ![Head(keys)] = handle[Head(keys)]]
                     ELSE cache, handle, Tail(keys))

updateConfigCache_allKeys(cache, handle, changedKeys) ==
    refreshKeys(cache, handle, SchemaLeaves)

\* updateConfigCache: for each changed key in order, cache the value read
\* through getUpdatedValue unless it is undefined.
RECURSIVE updateConfigCache(_, _, _)
updateConfigCache(cache, handle, changedKeys) ==
    IF changedKeys = <<>> THEN cache
    ELSE LET key == Head(changedKeys)
             value == getUpdatedValue(handle, key)
             next == IF value # Undefined THEN [cache EXCEPT ![key] = value]
                     ELSE cache
         IN  updateConfigCache(next, handle, Tail(changedKeys))

\* handleConfigurationChange for each set of leaves an event can affect.
reinitializedFor ==
    {[affected |-> a,
      reinit |-> handleConfigurationChange(getChangedConfigurationKeys(a))] :
        a \in SUBSET Keys}

\* vscode.workspace.getConfiguration(EXTENSION_NAME): a handle that carries the
\* settings as they are at the time of the call.
getWorkspaceConfiguration(settings) == settings

\* Mutant of reloadedHandle: the listener keeps the handle it had.
reloadedHandle_kept(handle, settings, changedKeys) == handle

\* The handle the listener holds after an event with these changed keys.
reloadedHandle(handle, settings, changedKeys) ==
    IF Len(changedKeys) > 0 THEN getWorkspaceConfiguration(settings) ELSE handle

\* The onDidChangeConfiguration listener registered by the constructor.
\* newStore is the settings after the change that raised the event.
Listener(newStore, opName, key) ==
    LET affected == {k \in Keys : newStore[k] # store[k]}
        changedKeys == getChangedConfigurationKeys(affected)
        reloaded == reloadedHandle(configuration, newStore, changedKeys)
        reinit == IF Len(changedKeys) > 0 THEN (CHOOSE e \in reinitializedFor : e.affected = affected).reinit
                  ELSE <<>>
    IN  /\ store' = newStore
        /\ configCache' = IF Len(changedKeys) > 0
                          THEN updateConfigCache(configCache, configuration, changedKeys)
                          ELSE configCache
        /\ configuration' = reloaded
        /\ cfgLast' = [op |-> opName, key |-> key, useCache |-> FALSE,
                       ret |-> Undefined,
                       changed |-> {changedKeys[i] : i \in DOMAIN changedKeys},
                       reinit |-> reinit,
                       saw |-> IF reinit # <<>> THEN {reloaded} ELSE {}]

\* An external settings change (settings UI, settings.json) and the event it raises.
OnDidChangeConfiguration ==
    \E newStore \in [Keys -> Values] :
        /\ Listener(newStore, "event", "")
        /\ UNCHANGED <<aiVars, diffVars, extVars>>

\* Mutant of getConfig: a cached read re-reads the handle and overwrites the entry.
getConfig_alwaysRefresh(cache, handle, key, useCache) ==
    IF ~useCache
    THEN [ret |-> handle[key], cache |-> cache]
    ELSE [ret |-> handle[key], cache |-> [cache EXCEPT ![key] = handle[key]]]

\* getConfig(key, useCache): the value returned and the cache afterwards.
getConfig(cache, handle, key, useCache) ==
    IF ~useCache
    THEN [ret |-> handle[key], cache |-> cache]
    ELSE IF cache[key] = Absent
         THEN [ret |-> handle[key], cache |-> [cache EXCEPT ![key] = handle[key]]]
         ELSE [ret |-> cache[key], cache |-> cache]

\* A call of getConfig(key, useCache).
GetConfig ==
    \E key \in Keys, useCache \in BOOLEAN :
        LET r == getConfig(configCache, configuration, key, useCache)
        IN  /\ configCache' = r.cache
            /\ cfgLast' = [op |-> "getConfig", key |-> key, useCache |-> useCache,
                           ret |-> r.ret, changed |-> {}, reinit |-> <<>>,
                           saw |-> {}]
            /\ UNCHANGED <<store, configuration, aiVars, diffVars, extVars>>

\* updateConfig(key, value): configuration.update(key, value, true); the settings
\* change it makes raises the change event.
UpdateConfig ==
    \E key \in Keys, value \in Values :
        /\ Listener([store EXCEPT ![key] = value], "updateConfig", key)
        /\ UNCHANGED <<aiVars, diffVars, extVars>>

(***************************************************************************)
(*                  OpenAIProvider.generateResponse                        *)
(***************************************************************************)

\* const maxRetries = 2
maxRetries == 2

\* the input budget used when the model descriptor gives none
DefaultInputLimit == 16385

\* Longest diff handed to generateResponse.
MaxDiffLen == 6

\* params.diff: a string of n characters, each identified by its position;
\* short ones, and one that is longer than the default input budget.
AIDiffs == {[i \in 1..n |-> i] : n \in (0..MaxDiffLen) \cup {DefaultInputLimit + 1}}

\* params.model?.maxTokens?.input; 0 stands for a missing model or limit.
ModelInputs == {0, 1, 4, 10}

\* String.prototype.substring(0, n): n is clamped to [0, length].
Substring0(s, n) == SubSeq(s, 1, Max(0, Min(n, Len(s))))

\* params.model?.maxTokens?.input || 16385
initialBudget(modelInput) == IF modelInput # 0 THEN modelInput ELSE DefaultInputLimit

\* Mutant of shrinkBudget: a retry keeps the budget of the failed attempt.
shrinkBudget_keeps(budget) == budget

\* Math.floor(maxInputLength * 0.8)
shrinkBudget(budget) == (budget * 4) \div 5

\* Mutant of shouldRetry: one retry too many.
shouldRetry_offByOne(r, isContextError) == r <= maxRetries /\ isContextError

\* Mutant of shouldRetry: every failure is retried.
shouldRetry_anyError(r, isContextError) == r < maxRetries

\* retries < maxRetries && error.message?.includes("maximum context length")
shouldRetry(r, isContextError) == r < maxRetries /\ isContextError

\* Entry of generateResponse up to the first await of the vendor call.
GenerateResponse ==
    \E d \in AIDiffs, m \in ModelInputs :
        /\ aiPc = "idle"
        /\ aiDiff' = d
        /\ aiModelInput' = m
        /\ retries' = 0
        /\ maxInputLength' = initialBudget(m)
        /\ aiSent' = <<Substring0(d, initialBudget(m))>>
        /\ aiPc' = "calling"
        /\ UNCHANGED <<aiOutcomes, aiErrors, aiWarns, aiResult, cfgVars, diffVars, extVars>>

\* The vendor call resolves: warn if the diff was truncated, return the response.
VendorSucceeds ==
    /\ aiPc = "calling"
    /\ aiOutcomes' = Append(aiOutcomes, "ok")
    /\ aiWarns' = IF Len(aiDiff) > maxInputLength THEN aiWarns + 1 ELSE aiWarns
    /\ aiResult' = "response"
    /\ aiPc' = "returned"
    /\ UNCHANGED <<aiDiff, aiModelInput, retries, maxInputLength, aiSent, aiErrors,
                   cfgVars, diffVars, extVars>>

\* The catch block, for an error that is (isContextError) or is not a
\* "maximum context length" error.
VendorFails(isContextError) ==
    /\ aiPc = "calling"
    /\ aiOutcomes' = Append(aiOutcomes, IF isContextError THEN "context" ELSE "other")
    /\ IF shouldRetry(retries, isContextError)
       THEN /\ retries' = retries + 1
            /\ maxInputLength' = shrinkBudget(maxInputLength)
            /\ aiSent' = Append(aiSent, Substring0(aiDiff, shrinkBudget(maxInputLength)))
            /\ UNCHANGED <<aiPc, aiErrors, aiResult>>
       ELSE /\ aiErrors' = aiErrors + 1
            /\ aiResult' = "error"
            /\ aiPc' = "thrown"
            /\ UNCHANGED <<retries, maxInputLength, aiSent>>
    /\ UNCHANGED <<aiDiff, aiModelInput, aiWarns, cfgVars, diffVars, extVars>>

VendorContextError == VendorFails(TRUE)

VendorOtherError == VendorFails(FALSE)

(***************************************************************************)
(*                           DiffSimplifier                                *)
(***************************************************************************)

\* Strings are sequences of one-character strings.
Whitespace == {" ", "\t"}

Newline == "\n"

Ellipsis == <<".", ".", ".">>

\* Most lines in a diff handed to simplify.
MaxLines == 3

\* The lines diffs are built from (without their line terminator).
Lines == {
    <<>>,
    <<"a">>,
    <<"+", "a">>,
    <<"+", "a", "b", "c", "d">>,
    <<"-", " ", " ", " ", "b">>,
    <<"=", "=", "=", "=", "=">>,
    <<" ", "a", " ", " ", "b", " ", " ", "c", " ">>,
    <<"+", "+", "+">> }

\* Most characters in a line handed to compressLine on its own.
MaxLineChars == 4

\* The characters such a line is made of: a diff marker, the two kinds of
\* whitespace, and a letter.
LineAlphabet == {"+", " ", "\t", "a"}

\* Single-line diffs: every line of at most MaxLineChars characters.
SingleLines == UNION {[1..n -> LineAlphabet] : n \in 0..MaxLineChars}

ContextLineChoices == {0, 1, 2}

MaxLineLengthChoices == {2, 3, 4, 6}

\* What getDiffConfig() can return: simplification off, or on with some
\* context-line count and maximum line length.
DiffConfigs ==
    {[enabled |-> FALSE, contextLines |-> 2, maxLineLength |-> 6]}
    \cup [enabled : {TRUE}, contextLines : ContextLineChoices,
          maxLineLength : MaxLineLengthChoices]

\* Mutant of joinLines: every line is terminated by a newline, the last one too.
RECURSIVE joinLines_terminated(_)
joinLines_terminated(ls) ==
    IF ls = <<>> THEN <<>>
    ELSE ls[1] \o <<Newline>> \o joinLines_terminated(Tail(ls))

\* Array.prototype.join("\n")
RECURSIVE joinLines(_)
joinLines(ls) ==
    IF ls = <<>> THEN <<>>
    ELSE IF Len(ls) = 1 THEN ls[1]
    ELSE ls[1] \o <<Newline>> \o joinLines(Tail(ls))

\* String.prototype.split("\n"): always at least one line.
RECURSIVE splitFrom(_, _)
splitFrom(s, cur) ==
    IF s = <<>> THEN <<cur>>
    ELSE IF Head(s) = Newline THEN <<cur>> \o splitFrom(Tail(s), <<>>)
    ELSE splitFrom(Tail(s), Append(cur, Head(s)))

splitLines(s) == splitFrom(s, <<>>)

\* All diffs of 1..MaxLines lines.
Diffs == UNION {{joinLines(ls) : ls \in [1..n -> Lines]} : n \in 1..MaxLines}

endsWith(s, p) == Len(s) >= Len(p) /\ SubSeq(s, Len(s) - Len(p) + 1, Len(s)) = p

\* isHeaderLine
isHeaderLine(line) ==
    \/ startsWith(line, <<"I", "n", "d", "e", "x", ":">>)
    \/ startsWith(line, <<"=", "=", "=">>)
    \/ startsWith(line, <<"-", "-", "-">>)
    \/ startsWith(line, <<"+", "+", "+">>)

\* isChangeLine
isChangeLine(line) == startsWith(line, <<"+">>) \/ startsWith(line, <<"-">>)

\* Mutant of truncateLine: the ellipsis is appended after maxLength characters.
truncateLine_ellipsisOver(line, maxLength) ==
    IF line = <<>> \/ Len(line) <= maxLength THEN line
    ELSE Substring0(line, maxLength) \o Ellipsis

\* truncateLine
truncateLine(line, maxLength) ==
    IF line = <<>> \/ Len(line) <= maxLength THEN line
    ELSE Substring0(line, maxLength - Len(Ellipsis)) \o Ellipsis

\* length of the match of /^\s*/
RECURSIVE leadingWhitespace(_)
leadingWhitespace(s) ==
    IF s = <<>> \/ Head(s) \notin Whitespace THEN 0
    ELSE 1 + leadingWhitespace(Tail(s))

\* String.prototype.trim()
RECURSIVE trimEnd(_)
trimEnd(s) ==
    IF s = <<>> \/ s[Len(s)] \notin Whitespace THEN s
    ELSE trimEnd(SubSeq(s, 1, Len(s) - 1))

trim(s) == trimEnd(SubSeq(s, leadingWhitespace(s) + 1, Len(s)))

\* replace(/\s+/g, " ")
RECURSIVE collapseWhitespace(_)
collapseWhitespace(s) ==
    IF s = <<>> THEN <<>>
    ELSE IF Head(s) \in Whitespace
         THEN <<" ">> \o collapseWhitespace(SubSeq(s, leadingWhitespace(s) + 1, Len(s)))
         ELSE <<Head(s)>> \o collapseWhitespace(Tail(s))

\* " ".repeat(n)
spaces(n) == [i \in 1..n |-> " "]

\* compressLine
compressLine(line) ==
    IF line = <<>> THEN line
    ELSE LET prefix == IF Head(line) \in {"+", " ", "-"} THEN <<Head(line)>> ELSE <<>>
             rest == IF prefix # <<>> THEN Tail(line) ELSE line
             indent == leadingWhitespace(rest)
             content == collapseWhitespace(trim(SubSeq(rest, indent + 1, Len(rest))))
         IN  prefix \o (IF indent > 0 THEN spaces(Min(2, indent)) ELSE <<>>) \o content

\* Mutant of lineStep: a header line is handled like a context line.
lineStep_headerAsContext(line, skipCount, config) ==
    IF isChangeLine(line) /\ ~isHeaderLine(line)
    THEN [emit |-> <<truncateLine(line, config.maxLineLength)>>, kind |-> "change",
          skip |-> 0]
    ELSE IF skipCount < config.contextLines
    THEN [emit |-> <<truncateLine(line, config.maxLineLength)>>,
          kind |-> IF isHeaderLine(line) THEN "header" ELSE "context",
          skip |-> skipCount + 1]
    ELSE IF skipCount = config.contextLines
    THEN [emit |-> <<Ellipsis>>, kind |-> "marker", skip |-> skipCount + 1]
    ELSE [emit |-> <<>>, kind |-> "dropped", skip |-> skipCount]

\* One iteration of simplify's loop on the compressed line: what is pushed to
\* the output (at most one line), as what, and the next skipCount.
lineStep(line, skipCount, config) ==
    IF isHeaderLine(line)
    THEN [emit |-> <<line>>, kind |-> "header", skip |-> skipCount]
    ELSE IF isChangeLine(line)
    THEN [emit |-> <<truncateLine(line, config.maxLineLength)>>, kind |-> "change",
          skip |-> 0]
    ELSE IF skipCount < config.contextLines
    THEN [emit |-> <<truncateLine(line, config.maxLineLength)>>, kind |-> "context",
          skip |-> skipCount + 1]
    ELSE IF skipCount = config.contextLines
    THEN [emit |-> <<Ellipsis>>, kind |-> "marker", skip |-> skipCount + 1]
    ELSE [emit |-> <<>>, kind |-> "dropped", skip |-> skipCount]

\* simplify's loop from line i on. `origin` records, for each line pushed, the
\* index of the input line that pushed it and what it was pushed as.
RECURSIVE simplifyLoop(_, _, _, _, _, _)
simplifyLoop(lines, i, skipCount, simplified, origin, config) ==
    IF i > Len(lines) THEN [lines |-> simplified, origin |-> origin]
    ELSE LET step == lineStep(compressLine(lines[i]), skipCount, config)
         IN  simplifyLoop(lines, i + 1, step.skip, simplified \o step.emit,
                          IF step.emit = <<>> THEN origin
                          ELSE Append(origin, [src |-> i, kind |-> step.kind]),
                          config)

simplifyRun(diff, config) == simplifyLoop(splitLines(diff), 1, 0, <<>>, <<>>, config)

\* Mutant of simplify: the enabled flag is not looked at.
simplify_alwaysOn(diff, config) == joinLines(simplifyRun(diff, config).lines)

\* simplify(diff) under the configuration getConfig() returned.
simplify(diff, config) ==
    IF ~config.enabled THEN diff
    ELSE joinLines(simplifyRun(diff, config).lines)

\* DiffSimplifier.getConfig(): the cached configuration, read once.
\* The cache is {} for null, {config} otherwise.
getDiffConfigCached(cache, settings) ==
    IF cache # {} THEN CHOOSE c \in cache : TRUE ELSE settings

originOf(diff, config) ==
    IF ~config.enabled THEN <<>> ELSE simplifyRun(diff, config).origin

\* simplify(diff) called on a diff.
Simplify ==
    /\ diffPc = "ready"
    /\ LET config == getDiffConfigCached(diffConfigCache, diffSettings)
       IN  /\ diffConfigCache' = {config}
           /\ diffOut' = simplify(diffIn, config)
           /\ diffOrigin' = originOf(diffIn, config)
    /\ diffPc' = "once"
    /\ UNCHANGED <<diffSettings, diffIn, diffPrev, cfgVars, aiVars, extVars>>

\* simplify called on what the previous call returned.
SimplifyAgain ==
    /\ diffPc = "once"
    /\ LET config == getDiffConfigCached(diffConfigCache, diffSettings)
       IN  /\ diffConfigCache' = {config}
           /\ diffOut' = simplify(diffOut, config)
           /\ diffOrigin' = originOf(diffOut, config)
    /\ diffIn' = diffOut
    /\ diffPrev' = diffOut
    /\ diffPc' = "twice"
    /\ UNCHANGED <<diffSettings, cfgVars, aiVars, extVars>>

(***************************************************************************)
(*                             SvnProvider                                 *)
(***************************************************************************)

\* What a caller passes as `files`: nothing, an empty list, or some paths.
FileLists == {[given |-> FALSE, paths |-> <<>>], [given |-> TRUE, paths |-> <<>>],
              [given |-> TRUE, paths |-> <<"f1", "f2">>]}

\* Commit messages / input box contents.
Messages == {"", "m1"}

\* files && files.length > 0   (getDiff)  and  files?.length   (commit)
hasFiles(files) == files.given /\ Len(files.paths) > 0

\* The command line getDiff builds: "svn diff" followed by the quoted paths.
diffCommand(files) ==
    IF hasFiles(files)
    THEN <<"svn diff">> \o [i \in 1..Len(files.paths) |-> "\"" \o files.paths[i] \o "\""]
    ELSE <<"svn diff">>

\* !stdout.trim(): trim() strips blanks, tabs and line terminators alike.
trimmedIsEmpty(s) == \A i \in 1..Len(s) : s[i] \in Whitespace \cup {Newline}

\* The lines the diff command's output is built from.
ScmLines == {
    <<"a">>,
    <<"+", "a", "b", "c", "d">>,
    <<" ", "a", " ", " ", "b", " ", " ", "c", " ">> }

\* What the diff command can write to its standard output.
Stdouts ==
    {<<>>, <<" ", Newline, "\t">>}
    \cup {joinLines(<<l, <<"a">>, <<"a">>>>) : l \in ScmLines}

\* What it can write to its error stream.
Stderrs == {<<>>, <<"E">>}

\* How the exec call settles: it rejects, or resolves with both streams.
ExecOutcomes ==
    {[rejects |-> TRUE, stdout |-> <<>>, stderr |-> <<>>]}
    \cup [rejects : {FALSE}, stdout : Stdouts, stderr : Stderrs]

\* The settings of the simplifier, as the user can set them.
ScmDiffConfigs == {
    [enabled |-> FALSE, contextLines |-> 2, maxLineLength |-> 6],
    [enabled |-> TRUE, contextLines |-> 0, maxLineLength |-> 4],
    [enabled |-> TRUE, contextLines |-> 2, maxLineLength |-> 6] }

\* config.get<boolean>("enableDiffSimplification"), read at every getDiff.
enableDiffSimplification(settings) == settings.enabled

\* getDiffConfig(): enabled flag, context-line count and maximum line length
\* as the settings hold them.
getDiffConfig(settings) == settings

NoError == "none"

\* Mutant of diffFailure: only a zero-length output counts as "no changes".
diffFailure_emptyOnly(execRejects, stdout, stderr) ==
    IF execRejects THEN "exec"
    ELSE IF stderr # <<>> THEN "stderr"
    ELSE IF stdout = <<>> THEN "noChanges"
    ELSE NoError

\* The error getDiff's try block throws before it looks at the settings:
\* exec's rejection, Error(stderr), or the "no changes" error.
diffFailure(execRejects, stdout, stderr) ==
    IF execRejects THEN "exec"
    ELSE IF stderr # <<>> THEN "stderr"
    ELSE IF trimmedIsEmpty(stdout) THEN "noChanges"
    ELSE NoError

\* Mutant of diffReturn: the warning is shown whatever the setting says.
diffReturn_alwaysWarns(stdout, enableSimplification, config) ==
    IF enableSimplification
    THEN [ret |-> simplify(stdout, config), warnings |-> 1, simplified |-> TRUE]
    ELSE [ret |-> stdout, warnings |-> 1, simplified |-> FALSE]

\* What getDiff returns for a non-blank output, and the warnings it shows.
diffReturn(stdout, enableSimplification, config) ==
    IF enableSimplification
    THEN [ret |-> simplify(stdout, config), warnings |-> 1, simplified |-> TRUE]
    ELSE [ret |-> stdout, warnings |-> 0, simplified |-> FALSE]

NoScmOp == [op |-> "none", threw |-> FALSE, error |-> NoError, ret |-> Undefined,
            logs |-> 0, errorsShown |-> 0, warnings |-> 0, caught |-> FALSE,
            args |-> <<>>, committed |-> {}]

\* this.api?.repositories?.[0]: the constructor stores the extension object,
\* isAvailable replaces it by the API object whose repository list is live.
firstRepository(api, repoOpen) == api = "api" /\ repoOpen

\* isAvailable(): getAPI is missing, throws, or yields the API object.
ScmIsAvailable ==
    \E getAPI \in {"missing", "throws", "ok"} :
        /\ scmApi' = IF getAPI = "ok" /\ scmRepoOpen THEN "api" ELSE scmApi
        /\ scmLast' = [NoScmOp EXCEPT !.op = "isAvailable",
                          !.ret = (getAPI = "ok" /\ scmRepoOpen),
                          !.caught = (getAPI = "throws"),
                          !.logs = IF getAPI = "throws" THEN 1 ELSE 0,
                          !.args = <<getAPI>>]
        /\ UNCHANGED <<scmRepoOpen, scmInputBox, scmWritten, cfgVars, aiVars,
                       diffVars, revVars, provVars, lifeVars>>

\* getDiff(files)
GetDiff ==
    /\ \E files \in FileLists, exec \in ExecOutcomes :
        LET execRejects == exec.rejects
            stdout == exec.stdout
            stderr == exec.stderr
            failure == diffFailure(execRejects, stdout, stderr)
            enabled == enableDiffSimplification(diffSettings)
            config == getDiffConfigCached(diffConfigCache, getDiffConfig(diffSettings))
            r == diffReturn(stdout, enabled, config)
            obs == [NoScmOp EXCEPT !.op = "getDiff",
                       !.args = <<diffCommand(files), execRejects, stdout, stderr,
                                  enabled>>]
        IN  IF failure # NoError
            THEN /\ scmLast' = [obs EXCEPT !.threw = TRUE, !.error = failure,
                                   !.caught = TRUE, !.logs = 1, !.errorsShown = 1]
                 /\ UNCHANGED diffConfigCache
            ELSE /\ scmLast' = [obs EXCEPT !.ret = r.ret, !.warnings = r.warnings]
                 /\ diffConfigCache' = IF r.simplified THEN {config}
                                       ELSE diffConfigCache
    /\ UNCHANGED <<scmApi, scmRepoOpen, scmInputBox, scmWritten, diffSettings,
                   diffPc, diffIn, diffOut, diffPrev, diffOrigin, cfgVars, aiVars,
                   revVars, provVars, lifeVars>>

\* Mutant of commitOutcome: the file list is not looked at.
commitOutcome_noFileCheck(repository, message, files, nativeFails) ==
    IF ~repository
    THEN [threw |-> TRUE, error |-> "noRepo", caught |-> FALSE, committed |-> {}]
    ELSE IF nativeFails
    THEN [threw |-> TRUE, error |-> "commitFailed", caught |-> TRUE,
          committed |-> {<<files.paths, message>>}]
    ELSE [threw |-> FALSE, error |-> NoError, caught |-> FALSE,
          committed |-> {<<files.paths, message>>}]

\* commit(message, files): what the caller sees and the commitFiles calls made.
commitOutcome(repository, message, files, nativeFails) ==
    IF ~repository
    THEN [threw |-> TRUE, error |-> "noRepo", caught |-> FALSE, committed |-> {}]
    ELSE IF ~hasFiles(files)
    THEN [threw |-> TRUE, error |-> "commitFailed", caught |-> TRUE, committed |-> {}]
    ELSE IF nativeFails
    THEN [threw |-> TRUE, error |-> "commitFailed", caught |-> TRUE,
          committed |-> {<<files.paths, message>>}]
    ELSE [threw |-> FALSE, error |-> NoError, caught |-> FALSE,
          committed |-> {<<files.paths, message>>}]

\* commit(message, files)
Commit ==
    /\ \E message \in Messages, files \in FileLists, nativeFails \in BOOLEAN :
        LET repository == firstRepository(scmApi, scmRepoOpen)
            r == commitOutcome(repository, message, files, nativeFails)
        IN  scmLast' = [NoScmOp EXCEPT !.op = "commit", !.threw = r.threw,
                           !.error = r.error, !.caught = r.caught,
                           !.logs = IF r.caught THEN 1 ELSE 0,
                           !.committed = r.committed,
                           !.args = <<message, files, repository>>]
    /\ UNCHANGED <<scmApi, scmRepoOpen, scmInputBox, scmWritten, cfgVars, aiVars,
                   diffVars, revVars, provVars, lifeVars>>

\* Mutant of inputAfterSet: the message is appended to what the box holds.
inputAfterSet_appends(repository, box, message) ==
    IF repository THEN box \o message ELSE box

\* The input box after setCommitInput(message).
inputAfterSet(repository, box, message) ==
    IF repository THEN message ELSE box

\* setCommitInput(message)
SetCommitInput ==
    /\ \E message \in Messages :
        LET repository == firstRepository(scmApi, scmRepoOpen)
        IN  /\ scmInputBox' = inputAfterSet(repository, scmInputBox, message)
            /\ scmWritten' = IF repository THEN {message} ELSE scmWritten
            /\ scmLast' = [NoScmOp EXCEPT !.op = "setCommitInput",
                              !.threw = ~repository,
                              !.error = IF repository THEN NoError ELSE "noRepo",
                              !.args = <<message, repository>>]
    /\ UNCHANGED <<scmApi, scmRepoOpen, cfgVars, aiVars, diffVars, revVars, provVars, lifeVars>>

\* getCommitInput()
GetCommitInput ==
    /\ LET repository == firstRepository(scmApi, scmRepoOpen)
       IN  scmLast' = [NoScmOp EXCEPT !.op = "getCommitInput",
                       !.threw = ~repository,
                       !.error = IF repository THEN NoError ELSE "noRepo",
                       !.ret = IF repository THEN scmInputBox ELSE Undefined,
                       !.args = <<repository>>]
    /\ UNCHANGED <<scmApi, scmRepoOpen, scmInputBox, scmWritten, cfgVars, aiVars,
                   diffVars, revVars, provVars, lifeVars>>

\* The working copy is opened or closed in the editor; a newly opened
\* repository has an empty input box.
RepositoryToggles ==
    /\ scmRepoOpen' = ~scmRepoOpen
    /\ scmInputBox' = ""
    /\ scmWritten' = {}
    /\ UNCHANGED <<scmApi, scmLast, cfgVars, aiVars, diffVars, revVars, provVars, lifeVars>>

\* The user types into the repository's input box.
UserEditsInputBox ==
    /\ scmRepoOpen
    /\ \E text \in Messages : scmInputBox' = text
    /\ scmWritten' = {}
    /\ UNCHANGED <<scmApi, scmRepoOpen, scmLast, cfgVars, aiVars, diffVars,
                   revVars, provVars, lifeVars>>

\* The user changes the simplifier's settings. Nothing clears
\* DiffSimplifier.configCache when that happens.
DiffSettingsChange ==
    /\ \E settings \in ScmDiffConfigs : diffSettings' = settings
    /\ UNCHANGED <<diffConfigCache, diffPc, diffIn, diffOut, diffPrev, diffOrigin,
                   scmVars, cfgVars, aiVars, revVars, provVars, lifeVars>>

ScmIdle ==
    /\ scmApi = "extension" /\ scmRepoOpen = FALSE /\ scmInputBox = ""
    /\ scmWritten = {} /\ scmLast = NoScmOp

(***************************************************************************)
(*                     ReviewCodeCommand.execute                           *)
(***************************************************************************)

\* Most resources handed to one execute call.
MaxFiles == 3

Files == 1..MaxFiles

\* How one file's scmProvider.getDiff call settles: a diff, nothing
\* (`if (diff)` is false), or a rejection.
DiffOutcomes == {"diff", "empty", "failed"}

\* How one file's generateCodeReview call settles: a review with content,
\* a result without content, or a rejection.
ReviewOutcomes == {"content", "empty", "failed"}

\* The keys of the diffs map once every diff promise has settled.
diffsCollected(diffState, files) == {f \in files : diffState[f] = "diff"}

\* The keys of the fileReviews map once every review promise has settled.
fileReviews(reviewState, files) == {f \in files : reviewState[f] = "content"}

\* Mutant of reviewVerdict: one rejected review fails the batch.
reviewVerdict_anyFailureFails(reviewState, files) ==
    LET reviews == fileReviews(reviewState, files)
    IN  IF reviews = {} \/ \E f \in files : reviewState[f] = "failed"
        THEN [panels |-> {}, note |-> "review.all.failed"]
        ELSE [panels |-> {reviews}, note |-> "review.complete.count"]

\* What execute does after Promise.all(reviewPromises): the panel it shows
\* and the notification it raises.
reviewVerdict(reviewState, files) ==
    LET reviews == fileReviews(reviewState, files)
    IN  IF reviews = {}
        THEN [panels |-> {}, note |-> "review.all.failed"]
        ELSE [panels |-> {reviews}, note |-> "review.complete.count"]

\* The catch block around one file's getDiff: console.error only.
diffCatch(outcome) ==
    IF outcome = "failed" THEN [logs |-> 1, warns |-> 0] ELSE [logs |-> 0, warns |-> 0]

\* The catch block around one file's review: a warning naming the file
\* and console.error.
reviewCatch(outcome) ==
    IF outcome = "failed" THEN [logs |-> 1, warns |-> 1] ELSE [logs |-> 0, warns |-> 0]

RevIdle ==
    /\ revPc = "idle" /\ revFiles = {} /\ revDiff = [f \in Files |-> "none"]
    /\ revReview = [f \in Files |-> "none"] /\ revWarned = [f \in Files |-> 0]
    /\ revLogged = [f \in Files |-> 0] /\ revNotes = {} /\ revPanel = {}

\* Mutant of allSettled: the wait ends when the first promise has settled.
allSettled_firstSettled(state, files) == \E f \in files : state[f] # "pending"

\* await Promise.all(promises) over promises that never reject: it resolves
\* once none of them is pending.
allSettled(state, files) == \A f \in files : state[f] # "pending"

\* execute(resources) up to the start of the diff promises: every getDiff
\* call is started before any of them is awaited.
Execute ==
    /\ revPc = "idle"
    /\ \E n \in 0..MaxFiles,
          setup \in {"noConfiguration", "noScmProvider", "throws", "ok"} :
        IF setup = "noConfiguration"
        THEN /\ revPc' = "done"
             /\ UNCHANGED <<revFiles, revDiff, revNotes>>
        ELSE IF n = 0
        THEN /\ revPc' = "done"
             /\ revNotes' = revNotes \cup {"no.changes.selected"}
             /\ UNCHANGED <<revFiles, revDiff>>
        ELSE IF setup = "noScmProvider"
        THEN /\ revPc' = "done"
             /\ UNCHANGED <<revFiles, revDiff, revNotes>>
        ELSE IF setup = "throws"
        THEN /\ revPc' = "done"
             /\ revNotes' = revNotes \cup {"code.review.failed"}
             /\ UNCHANGED <<revFiles, revDiff>>
        ELSE /\ revPc' = "diffing"
             /\ revFiles' = 1..n
             /\ revDiff' = [f \in Files |-> IF f <= n THEN "pending" ELSE "none"]
             /\ UNCHANGED revNotes
    /\ UNCHANGED <<revReview, revWarned, revLogged, revPanel, cfgVars, aiVars,
                   diffVars, scmVars, provVars, lifeVars>>

\* One file's getDiff settles and the rest of its promise body runs.
DiffSettles ==
    /\ revPc = "diffing"
    /\ \E f \in revFiles, outcome \in DiffOutcomes :
        /\ revDiff[f] = "pending"
        /\ revDiff' = [revDiff EXCEPT ![f] = outcome]
        /\ revLogged' = [revLogged EXCEPT ![f] = @ + diffCatch(outcome).logs]
        /\ revWarned' = [revWarned EXCEPT ![f] = @ + diffCatch(outcome).warns]
    /\ UNCHANGED <<revPc, revFiles, revReview, revNotes, revPanel, cfgVars, aiVars,
                   diffVars, scmVars, provVars, lifeVars>>

\* Promise.all(diffPromises) resolves: stop if no diff was collected,
\* otherwise start one review per collected diff.
DiffsCollected ==
    /\ revPc = "diffing"
    /\ allSettled(revDiff, revFiles)
    /\ LET diffs == diffsCollected(revDiff, revFiles)
       IN  IF diffs = {}
           THEN /\ revNotes' = revNotes \cup {"no.changes.found"}
                /\ revPc' = "done"
                /\ UNCHANGED revReview
           ELSE /\ revReview' = [f \in Files |-> IF f \in diffs THEN "pending"
                                                 ELSE "none"]
                /\ revPc' = "reviewing"
                /\ UNCHANGED revNotes
    /\ UNCHANGED <<revFiles, revDiff, revWarned, revLogged, revPanel, cfgVars,
                   aiVars, diffVars, scmVars, provVars, lifeVars>>

\* One file's generateCodeReview settles and the rest of its promise body runs.
ReviewSettles ==
    /\ revPc = "reviewing"
    /\ \E f \in revFiles, outcome \in ReviewOutcomes :
        /\ revReview[f] = "pending"
        /\ revReview' = [revReview EXCEPT ![f] = outcome]
        /\ revLogged' = [revLogged EXCEPT ![f] = @ + reviewCatch(outcome).logs]
        /\ revWarned' = [revWarned EXCEPT ![f] = @ + reviewCatch(outcome).warns]
    /\ UNCHANGED <<revPc, revFiles, revDiff, revNotes, revPanel, cfgVars, aiVars,
                   diffVars, scmVars, provVars, lifeVars>>

\* Promise.all(reviewPromises) resolves: report that every review failed,
\* or show the panel and the completion message.
ReviewsCollected ==
    /\ revPc = "reviewing"
    /\ allSettled(revReview, revFiles)
    /\ LET verdict == reviewVerdict(revReview, revFiles)
       IN  /\ revPanel' = revPanel \cup verdict.panels
           /\ revNotes' = revNotes \cup {verdict.note}
    /\ revPc' = "done"
    /\ UNCHANGED <<revFiles, revDiff, revReview, revWarned, revLogged, cfgVars,
                   aiVars, diffVars, scmVars, provVars, lifeVars>>

(***************************************************************************)
(*      OpenAIProvider probes and ConfigurationManager validation          *)
(***************************************************************************)

\* What a credential setting can hold.
CredentialValues == {Undefined, "", "sk"}

\* What the provider setting can hold.
ProviderNames == {"OpenAI", "Ollama", "VS Code Provided", "Unknown"}

\* The settings these operations read.
ProvStores ==
    {s \in [Keys -> CredentialValues \cup ProviderNames] :
        /\ s["base.provider"] \in ProviderNames
        /\ s["providers.openai.apiKey"] \in CredentialValues
        /\ s["providers.ollama.baseUrl"] \in CredentialValues}

\* String.prototype.toLowerCase on the provider names.
toLowerCase(name) ==
    CASE name = "OpenAI" -> "openai"
      [] name = "Ollama" -> "ollama"
      [] name = "VS Code Provided" -> "vs code provided"
      [] name = "Unknown" -> "unknown"
      [] OTHER -> name

\* !!value
truthy(value) == value # Undefined /\ value # ""

\* The first ids of the module-level `models` array.
StaticCatalog == <<"o1-preview", "o1-preview-2024-09-12", "o1-mini">>

\* The ids the vendor's model-listing endpoint can answer with, in its order.
ListedModels == {<<>>, <<"gpt-4">>, <<"gpt-4", "o1-mini">>, <<"o1-mini", "gpt-4">>}

\* How openai.models.list() settles: it rejects, or resolves with the ids
\* of models.data.
Listings ==
    {[fails |-> TRUE, ids |-> <<>>]} \cup [fails : {FALSE}, ids : ListedModels]

NoProvOp == [op |-> "none", threw |-> FALSE, ret |-> Undefined, caught |-> FALSE,
             logs |-> 0, notes |-> {}, args |-> <<>>, opened |-> FALSE]

\* Mutant of isAvailable: the key is read through the manager's cache.
isAvailable_cachedKey(cache, handle, resolveThrows) ==
    IF resolveThrows THEN FALSE
    ELSE truthy(getConfig(cache, handle, "providers.openai.apiKey", TRUE).ret)

\* isAvailable(): getOpenAIConfig() reads the key with useCache = false;
\* whatever it throws is caught.
isAvailable(cache, handle, resolveThrows) ==
    IF resolveThrows THEN FALSE
    ELSE truthy(getConfig(cache, handle, "providers.openai.apiKey", FALSE).ret)

\* isAvailable()
ProvIsAvailable ==
    /\ \E resolveThrows \in BOOLEAN :
        provLast' = [NoProvOp EXCEPT !.op = "isAvailable",
                        !.ret = isAvailable(configCache, configuration, resolveThrows),
                        !.caught = resolveThrows,
                        !.args = <<resolveThrows>>]
    /\ UNCHANGED <<aiCatalog, cfgVars, aiVars, diffVars, scmVars, revVars, lifeVars>>

\* Mutant of refreshModels: the fetched ids replace the catalog.
refreshModels_replacesCatalog(catalog, listing) ==
    IF listing.fails
    THEN [ret |-> <<>>, caught |-> TRUE, logs |-> 1,
          notes |-> {"openai.models.fetch.failed"}, catalog |-> catalog]
    ELSE [ret |-> listing.ids, caught |-> FALSE, logs |-> 0,
          notes |-> {"openai.models.update.success"}, catalog |-> listing.ids]

\* refreshModels(): `listing` is how openai.models.list() settles.
refreshModels(catalog, listing) ==
    IF listing.fails
    THEN [ret |-> <<>>, caught |-> TRUE, logs |-> 1,
          notes |-> {"openai.models.fetch.failed"}, catalog |-> catalog]
    ELSE [ret |-> listing.ids, caught |-> FALSE, logs |-> 0,
          notes |-> {"openai.models.update.success"}, catalog |-> catalog]

\* refreshModels()
RefreshModels ==
    /\ \E listing \in Listings :
        LET r == refreshModels(aiCatalog, listing)
        IN  /\ provLast' = [NoProvOp EXCEPT !.op = "refreshModels", !.ret = r.ret,
                               !.caught = r.caught, !.logs = r.logs,
                               !.notes = r.notes, !.args = <<listing>>]
            /\ aiCatalog' = r.catalog
    /\ UNCHANGED <<cfgVars, aiVars, diffVars, scmVars, revVars, lifeVars>>

\* getModels()
GetModels ==
    /\ provLast' = [NoProvOp EXCEPT !.op = "getModels", !.ret = aiCatalog]
    /\ UNCHANGED <<aiCatalog, cfgVars, aiVars, diffVars, scmVars, revVars, lifeVars>>

\* config.providers[provider][field] of the configuration getConfiguration()
\* builds from the handle.
providerField(handle, provider, field) ==
    LET key == "providers." \o provider \o "." \o field
    IN  IF key \in DOMAIN handle THEN handle[key] ELSE Undefined

\* How the user answers the "missing" prompt.
PromptAnswers == {"yes", "no", Undefined}

\* validateProviderConfig(provider, requiredField)
validateProviderConfig(handle, provider, requiredField, answer) ==
    IF ~truthy(providerField(handle, provider, requiredField))
    THEN [ret |-> FALSE, prompted |-> TRUE, opened |-> (answer = "yes")]
    ELSE [ret |-> TRUE, prompted |-> FALSE, opened |-> FALSE]

\* Mutant of validateConfiguration: a provider that is not listed is
\* validated like openai.
validateConfiguration_defaultOpenai(handle, answer) ==
    LET provider == toLowerCase(handle["base.provider"])
    IN  CASE provider = "ollama" ->
                validateProviderConfig(handle, "ollama", "baseUrl", answer)
          [] provider \in {"zhipuai", "dashscope", "doubao"} ->
                validateProviderConfig(handle, provider, "apiKey", answer)
          [] provider = "vs code provided" ->
                [ret |-> TRUE, prompted |-> FALSE, opened |-> FALSE]
          [] OTHER -> validateProviderConfig(handle, "openai", "apiKey", answer)

\* validateConfiguration(): the switch over the lower-cased provider name.
validateConfiguration(handle, answer) ==
    LET provider == toLowerCase(handle["base.provider"])
    IN  CASE provider = "openai" ->
                validateProviderConfig(handle, "openai", "apiKey", answer)
          [] provider = "ollama" ->
                validateProviderConfig(handle, "ollama", "baseUrl", answer)
          [] provider \in {"zhipuai", "dashscope", "doubao"} ->
                validateProviderConfig(handle, provider, "apiKey", answer)
          [] provider = "vs code provided" ->
                [ret |-> TRUE, prompted |-> FALSE, opened |-> FALSE]
          [] OTHER -> [ret |-> FALSE, prompted |-> FALSE, opened |-> FALSE]

\* validateConfiguration()
ValidateConfiguration ==
    /\ \E answer \in PromptAnswers :
        LET r == validateConfiguration(configuration, answer)
        IN  provLast' = [NoProvOp EXCEPT !.op = "validateConfiguration",
                            !.ret = r.ret,
                            !.notes = IF r.prompted THEN {"missing"} ELSE {},
                            !.opened = r.opened,
                            !.args = <<answer>>]
    /\ UNCHANGED <<aiCatalog, cfgVars, aiVars, diffVars, scmVars, revVars, lifeVars>>

\* The user edits the OpenAI API key; the manager's listener handles the
\* change event.
ApiKeyEdited ==
    /\ \E value \in CredentialValues :
        /\ value # store["providers.openai.apiKey"]
        /\ Listener([store EXCEPT !["providers.openai.apiKey"] = value], "event", "")
    /\ UNCHANGED <<aiVars, diffVars, extVars>>

ProvIdle == aiCatalog = StaticCatalog /\ provLast = NoProvOp

(***************************************************************************)
(*          ConfigurationManager.getInstance and dispose                   *)
(***************************************************************************)

\* Most manager objects constructed in one run.
MaxInstances == 3

Instances == 1..MaxInstances

\* ConfigurationManager.instance before the first getInstance and after dispose.
NoInstance == 0

EmptyCache == [k \in Keys |-> Absent]

\* The settings that are read and edited while managers come and go.
LifeKeys == {"base.provider", "providers.openai.apiKey"}

\* An identity no constructor call has used yet.
NotConstructed ==
    [created |-> FALSE, subscribed |-> FALSE,
     configuration |-> [k \in Keys |-> Undefined], configCache |-> EmptyCache]

\* new ConfigurationManager(): a handle on the settings of that moment, an
\* empty cache, and a change listener pushed to this.disposables.
construct(settings) ==
    [created |-> TRUE, subscribed |-> TRUE,
     configuration |-> getWorkspaceConfiguration(settings), configCache |-> EmptyCache]

\* What dispose() does to the object it is called on.
disposed(obj) == [obj EXCEPT !.configCache = EmptyCache, !.subscribed = FALSE]

\* The change listener of one object, if it is still subscribed.
listenerOf(obj, newStore, affected) ==
    LET changedKeys == getChangedConfigurationKeys(affected)
    IN  IF ~obj.subscribed \/ Len(changedKeys) = 0 THEN obj
        ELSE [obj EXCEPT
                !.configCache = updateConfigCache(obj.configCache, obj.configuration,
                                                  changedKeys),
                !.configuration = reloadedHandle(obj.configuration, newStore,
                                                 changedKeys)]

NoLifeOp ==
    [op |-> "none", inst |-> NoInstance, constructed |-> FALSE, reinit |-> {},
     wrote |-> {}]

\* ConfigurationManager.getInstance()
GetInstance ==
    /\ IF lifeInstance # NoInstance
       THEN /\ lifeLast' = [NoLifeOp EXCEPT !.op = "getInstance", !.inst = lifeInstance]
            /\ UNCHANGED <<lifeInstance, lifeObjs>>
       ELSE \E i \in Instances :
              /\ ~lifeObjs[i].created
              /\ \A j \in 1..(i - 1) : lifeObjs[j].created
              /\ lifeObjs' = [lifeObjs EXCEPT ![i] = construct(store)]
              /\ lifeInstance' = i
              /\ lifeLast' = [NoLifeOp EXCEPT !.op = "getInstance", !.inst = i,
                                              !.constructed = TRUE]
    /\ UNCHANGED <<cfgVars, aiVars, diffVars, scmVars, revVars, provVars>>

\* dispose() called on a reference some caller got from getInstance().
Dispose ==
    \E i \in Instances :
        /\ lifeObjs[i].created
        /\ lifeObjs' = [lifeObjs EXCEPT ![i] = disposed(@)]
        /\ lifeInstance' = NoInstance
        /\ lifeLast' = [NoLifeOp EXCEPT !.op = "dispose", !.inst = i]
        /\ UNCHANGED <<cfgVars, aiVars, diffVars, scmVars, revVars, provVars>>

\* getInstance().getConfig(key) on the current instance.
InstanceGetConfig ==
    /\ lifeInstance # NoInstance
    /\ \E key \in LifeKeys :
        LET obj == lifeObjs[lifeInstance]
            r == getConfig(obj.configCache, obj.configuration, key, TRUE)
        IN  /\ lifeObjs' = [lifeObjs EXCEPT ![lifeInstance].configCache = r.cache]
            /\ lifeLast' = [NoLifeOp EXCEPT !.op = "getConfig", !.inst = lifeInstance]
    /\ UNCHANGED <<lifeInstance, cfgVars, aiVars, diffVars, scmVars, revVars, provVars>>

\* One setting changes and the editor calls every subscribed listener.
InstanceSettingsChange ==
    \E key \in LifeKeys, value \in Values :
        /\ value # store[key]
        /\ store' = [store EXCEPT ![key] = value]
        /\ lifeObjs' = [i \in Instances |-> listenerOf(lifeObjs[i], store', {key})]
        /\ lifeLast' =
              [NoLifeOp EXCEPT
                 !.op = "event",
                 !.reinit = {i \in Instances :
                               /\ lifeObjs[i].subscribed
                               /\ (CHOOSE e \in reinitializedFor :
                                      e.affected = {key}).reinit # <<>>},
                 !.wrote = {i \in Instances :
                              lifeObjs'[i].configCache # lifeObjs[i].configCache}]
        /\ UNCHANGED <<lifeInstance, configuration, configCache, cfgLast, aiVars,
                       diffVars, scmVars, revVars, provVars>>

LifeIdle ==
    /\ lifeInstance = NoInstance
    /\ lifeObjs = [i \in Instances |-> NotConstructed]
    /\ lifeLast = NoLifeOp

ExtIdle == ScmIdle /\ RevIdle /\ ProvIdle /\ LifeIdle

AIIdle ==
    /\ aiPc = "idle" /\ aiDiff = <<>> /\ aiModelInput = 0 /\ retries = 0
    /\ maxInputLength = 0 /\ aiSent = <<>> /\ aiOutcomes = <<>>
    /\ aiErrors = 0 /\ aiWarns = 0 /\ aiResult = "none"

DiffIdle ==
    /\ diffSettings = [enabled |-> FALSE, contextLines |-> 0, maxLineLength |-> 0]
    /\ diffConfigCache = {} /\ diffPc = "ready" /\ diffIn = <<>>
    /\ diffOut = <<>> /\ diffPrev = <<>> /\ diffOrigin = <<>>

CfgFresh ==
    /\ configuration = getWorkspaceConfiguration(store)
    /\ configCache = [k \in Keys |-> Absent]
    /\ cfgLast = NoOp

\* After getInstance() has constructed the manager: a fresh handle, an empty cache.
Init ==
    /\ store \in [Keys -> Values]
    /\ CfgFresh
    /\ AIIdle
    /\ DiffIdle
    /\ ExtIdle

Next ==
    \/ OnDidChangeConfiguration
    \/ GetConfig
    \/ UpdateConfig

Spec == Init /\ [][Next]_vars

InitAI ==
    /\ store = [k \in Keys |-> Undefined]
    /\ CfgFresh
    /\ AIIdle
    /\ DiffIdle
    /\ ExtIdle

NextAI ==
    \/ GenerateResponse
    \/ VendorSucceeds
    \/ VendorContextError
    \/ VendorOtherError

SpecAI == InitAI /\ [][NextAI]_vars

InitDiff ==
    /\ store = [k \in Keys |-> Undefined]
    /\ CfgFresh
    /\ AIIdle
    /\ diffSettings \in DiffConfigs
    /\ diffIn \in Diffs
    /\ diffConfigCache = {} /\ diffPc = "ready"
    /\ diffOut = <<>> /\ diffPrev = <<>> /\ diffOrigin = <<>>
    /\ ExtIdle

NextDiff ==
    \/ Simplify
    \/ SimplifyAgain

SpecDiff == InitDiff /\ [][NextDiff]_vars

\* simplify on a diff of one line, for the per-line whitespace compression.
InitLine ==
    /\ store = [k \in Keys |-> Undefined]
    /\ CfgFresh
    /\ AIIdle
    /\ diffSettings \in DiffConfigs
    /\ diffIn \in SingleLines
    /\ diffConfigCache = {} /\ diffPc = "ready"
    /\ diffOut = <<>> /\ diffPrev = <<>> /\ diffOrigin = <<>>
    /\ ExtIdle

SpecLine == InitLine /\ [][NextDiff]_vars

\* A provider constructed for a workspace; isAvailable has not run yet.
InitScm ==
    /\ store = [k \in Keys |-> Undefined]
    /\ CfgFresh
    /\ AIIdle
    /\ diffSettings \in ScmDiffConfigs
    /\ diffConfigCache = {} /\ diffPc = "ready" /\ diffIn = <<>>
    /\ diffOut = <<>> /\ diffPrev = <<>> /\ diffOrigin = <<>>
    /\ ExtIdle

NextScm ==
    \/ ScmIsAvailable
    \/ GetDiff
    \/ Commit
    \/ SetCommitInput
    \/ GetCommitInput
    \/ RepositoryToggles
    \/ UserEditsInputBox
    \/ DiffSettingsChange

SpecScm == InitScm /\ [][NextScm]_vars

InitReview ==
    /\ store = [k \in Keys |-> Undefined]
    /\ CfgFresh
    /\ AIIdle
    /\ DiffIdle
    /\ ExtIdle

NextReview ==
    \/ Execute
    \/ DiffSettles
    \/ DiffsCollected
    \/ ReviewSettles
    \/ ReviewsCollected

SpecReview == InitReview /\ [][NextReview]_vars

\* The manager and the provider constructed against some settings.
InitProv ==
    /\ store \in ProvStores
    /\ CfgFresh
    /\ AIIdle
    /\ DiffIdle
    /\ ExtIdle

NextProv ==
    \/ ApiKeyEdited
    \/ ProvIsAvailable
    \/ RefreshModels
    \/ GetModels
    \/ ValidateConfiguration

SpecProv == InitProv /\ [][NextProv]_vars

\* Before the first getInstance(): no manager object exists.
InitLife ==
    /\ store = [k \in Keys |-> Undefined]
    /\ CfgFresh
    /\ AIIdle
    /\ DiffIdle
    /\ ExtIdle

NextLife ==
    \/ GetInstance
    \/ Dispose
    \/ InstanceGetConfig
    \/ InstanceSettingsChange

SpecLife == InitLife /\ [][NextLife]_vars

(***************************************************************************)
(*                              Properties                                 *)
(***************************************************************************)

\* C1: generateResponse - two "maximum context length" failures followed by a
\* success return a response and raise no error; a third consecutive
\* context-length failure exhausts the retry budget: a wrapped error is thrown
\* and no fourth vendor call is made.
C1_RetryBudget ==
    /\ aiOutcomes = <<"context", "context", "ok">>
         => aiPc = "returned" /\ aiResult = "response" /\ aiErrors = 0
    /\ (Len(aiOutcomes) >= 3 /\ SubSeq(aiOutcomes, 1, 3) = <<"context", "context", "context">>)
         => /\ aiPc = "thrown" /\ aiResult = "error" /\ aiErrors = 1
            /\ Len(aiOutcomes) = 3 /\ Len(aiSent) = 3

\* C1 witness: the third attempt succeeded, on a shorter prompt than the first.
C1_Witness ==
    /\ aiOutcomes = <<"context", "context", "ok">>
    /\ aiPc = "returned"
    /\ Len(aiSent[3]) < Len(aiSent[1])

\* C2: generateResponse - a failure that is not a context-length error ends the
\* call on whichever attempt it happens: it is the last vendor call, exactly one
\* error notification is issued and an error is thrown.
C2_OtherErrorNotRetried ==
    \A i \in DOMAIN aiOutcomes :
        aiOutcomes[i] = "other"
          => /\ i = Len(aiOutcomes) /\ Len(aiSent) = i
             /\ aiPc = "thrown" /\ aiResult = "error" /\ aiErrors = 1

\* C2 witness: the non-context failure happened on a retry.
C2_Witness ==
    /\ aiOutcomes = <<"context", "other">>
    /\ aiPc = "thrown"

\* C3: getConfig(key, false) returns the value the settings store holds for the
\* key, whatever the cache holds for it.
C3_UncachedReadIsLive ==
    (cfgLast.op = "getConfig" /\ ~cfgLast.useCache)
      => cfgLast.ret = store[cfgLast.key]

\* C3 witness: an uncached read of a key whose cache entry is stale.
C3_Witness ==
    /\ cfgLast.op = "getConfig" /\ ~cfgLast.useCache
    /\ configCache[cfgLast.key] # Absent
    /\ configCache[cfgLast.key] # store[cfgLast.key]
    /\ cfgLast.ret = store[cfgLast.key]

\* C4: an event that reports exactly one changed leaf leaves the cache entry of
\* every other key (present or absent) as it was.
C4_SingleLeafFrame ==
    [][(cfgLast'.op = "event" /\ Cardinality(cfgLast'.changed) = 1)
         => \A k \in Keys \ cfgLast'.changed : configCache'[k] = configCache[k]]_vars

\* C4 witness: after a single-leaf event the leaf has an entry and so does
\* another key, whose entry differs from the store's value.
C4_Witness ==
    /\ cfgLast.op = "event" /\ Cardinality(cfgLast.changed) = 1
    /\ \E k \in cfgLast.changed : configCache[k] # Absent
    /\ \E j \in Keys \ cfgLast.changed :
          configCache[j] # Absent /\ configCache[j] # store[j]

\* C5: a cached read returns the entry when there is one (and leaves the cache
\* alone); with no entry it reads the store, caches what it read and returns it;
\* an uncached read never touches the cache.
C5_CachedRead ==
    [][cfgLast'.op = "getConfig"
         => LET k == cfgLast'.key
            IN  IF cfgLast'.useCache
                THEN IF configCache[k] # Absent
                     THEN cfgLast'.ret = configCache[k] /\ configCache' = configCache
                     ELSE /\ cfgLast'.ret = store[k]
                          /\ configCache' = [configCache EXCEPT ![k] = store[k]]
                ELSE configCache' = configCache]_vars

\* C5 witness: a cached read served an entry that differs from the store.
C5_Witness ==
    /\ cfgLast.op = "getConfig" /\ cfgLast.useCache
    /\ cfgLast.ret = configCache[cfgLast.key]
    /\ cfgLast.ret # store[cfgLast.key]

\* The lines of the last simplify call's argument and of its result.
InLines == splitLines(diffIn)

OutLines == splitLines(diffOut)

\* C6: with the enabled flag false, simplify returns its argument unchanged.
C6_DisabledIsIdentity ==
    \A c \in diffConfigCache :
        (diffPc # "ready" /\ ~c.enabled) => diffOut = diffIn

\* C6 witness: a disabled call on a diff that an enabled call would have changed.
C6_Witness ==
    \E c \in diffConfigCache :
        /\ diffPc = "once" /\ ~c.enabled /\ diffOut = diffIn
        /\ joinLines(simplifyRun(diffIn, c).lines) # diffIn

\* C7: simplify is idempotent: simplifying the result of simplify, under the
\* same configuration, returns it unchanged.
C7_Idempotent ==
    diffPc = "twice" => diffOut = diffPrev

\* C7 as amended: simplify is idempotent under every configuration that is
\* disabled or has maxLineLength >= 4.
C7_IdempotentFrom4 ==
    \A c \in diffConfigCache :
        (diffPc = "twice" /\ (~c.enabled \/ c.maxLineLength >= 4))
          => diffOut = diffPrev

\* C7 witness: re-simplifying a diff that holds a "..." marker and a truncated
\* line, under maxLineLength >= 4.
C7_Witness ==
    \E c \in diffConfigCache :
        /\ diffPc = "twice" /\ c.enabled /\ c.maxLineLength >= 4
        /\ diffOut = diffPrev
        /\ \E j \in DOMAIN OutLines : OutLines[j] = Ellipsis
        /\ \E j \in DOMAIN OutLines :
              /\ OutLines[j] # Ellipsis /\ endsWith(OutLines[j], Ellipsis)
              /\ Len(OutLines[j]) = c.maxLineLength

\* Input line i is a context line: neither a header nor a changed line.
IsContext(i) == ~isHeaderLine(InLines[i]) /\ ~isChangeLine(InLines[i])

\* a..b is a maximal run of consecutive context lines of the input.
IsContextRun(a, b) ==
    /\ a <= b
    /\ \A i \in a..b : IsContext(i)
    /\ (a = 1 \/ ~IsContext(a - 1))
    /\ (b = Len(InLines) \/ ~IsContext(b + 1))

\* Output positions produced by input lines a..b as `kind`.
Produced(a, b, kind) ==
    {j \in DOMAIN diffOrigin : diffOrigin[j].src \in a..b /\ diffOrigin[j].kind = kind}

\* C8: a run of exactly contextLines + 1 context lines yields contextLines
\* literal lines followed by one "..." marker; a run of more than contextLines
\* context lines yields at most contextLines literal lines and at most one marker.
C8_ContextBoundary ==
    \A c \in diffConfigCache :
        (diffPc # "ready" /\ c.enabled)
          => \A a, b \in DOMAIN InLines :
                IsContextRun(a, b)
                  => /\ (b - a + 1 = c.contextLines + 1)
                          => /\ Cardinality(Produced(a, b, "context")) = c.contextLines
                             /\ Cardinality(Produced(a, b, "marker")) = 1
                             /\ \A m \in Produced(a, b, "marker") :
                                   /\ OutLines[m] = Ellipsis
                                   /\ \A l \in Produced(a, b, "context") : l < m
                     /\ (b - a + 1 > c.contextLines)
                          => /\ Cardinality(Produced(a, b, "context")) <= c.contextLines
                             /\ Cardinality(Produced(a, b, "marker")) <= 1

\* C9: every input line longer than maxLineLength appears in the output cut to
\* exactly maxLineLength characters ending in "...", and no output line is longer
\* than maxLineLength.
C9_EveryLongLineCut ==
    \A c \in diffConfigCache :
        (diffPc # "ready" /\ c.enabled)
          => /\ \A i \in DOMAIN InLines :
                   Len(InLines[i]) > c.maxLineLength
                     => \E j \in DOMAIN diffOrigin :
                           /\ diffOrigin[j].src = i
                           /\ Len(OutLines[j]) = c.maxLineLength
                           /\ endsWith(OutLines[j], Ellipsis)
             /\ \A j \in DOMAIN OutLines : Len(OutLines[j]) <= c.maxLineLength

\* C9 as amended: every changed line and every kept context line whose
\* whitespace-compressed form is longer than maxLineLength appears cut to
\* max(maxLineLength, 3) characters - its first max(maxLineLength, 3) - 3
\* characters followed by "..." - and otherwise appears as compressed; so no
\* output line other than a header line is longer than max(maxLineLength, 3).
C9_ChangedAndKeptLinesCut ==
    \A c \in diffConfigCache :
        (diffPc # "ready" /\ c.enabled)
          => /\ Len(OutLines) = Len(diffOrigin)
             /\ \A j \in DOMAIN diffOrigin :
                   LET line == compressLine(InLines[diffOrigin[j].src])
                       cut == Max(c.maxLineLength, 3)
                   IN  /\ diffOrigin[j].kind \in {"change", "context"}
                            => IF Len(line) > c.maxLineLength
                               THEN /\ Len(OutLines[j]) = cut
                                    /\ OutLines[j] = SubSeq(line, 1, cut - 3) \o Ellipsis
                               ELSE OutLines[j] = line
                       /\ diffOrigin[j].kind # "header" => Len(OutLines[j]) <= cut

\* C9 witness: a changed line was cut to exactly maxLineLength >= 4 characters.
C9_Witness ==
    \E c \in diffConfigCache :
        /\ diffPc = "once" /\ c.enabled /\ c.maxLineLength >= 4
        /\ \E j \in DOMAIN diffOrigin :
              /\ diffOrigin[j].kind = "change"
              /\ Len(compressLine(InLines[diffOrigin[j].src])) > c.maxLineLength
              /\ Len(OutLines[j]) = c.maxLineLength
              /\ endsWith(OutLines[j], Ellipsis)

\* C10: only context lines are dropped: every header line and every changed line
\* of the input yields exactly one output line (the compressed header, the
\* compressed and truncated changed line), and output lines keep input order.
C10_HeadersAndChangesKept ==
    \A c \in diffConfigCache :
        (diffPc # "ready" /\ c.enabled)
          => /\ Len(OutLines) = Len(diffOrigin)
             /\ \A i \in DOMAIN InLines :
                   (isHeaderLine(InLines[i]) \/ isChangeLine(InLines[i]))
                     => /\ Cardinality({j \in DOMAIN diffOrigin : diffOrigin[j].src = i}) = 1
                        /\ \A j \in DOMAIN diffOrigin :
                              diffOrigin[j].src = i
                                => OutLines[j] =
                                     IF isHeaderLine(InLines[i])
                                     THEN compressLine(InLines[i])
                                     ELSE truncateLine(compressLine(InLines[i]),
                                                       c.maxLineLength)
             /\ \A j, k \in DOMAIN diffOrigin :
                   j < k => diffOrigin[j].src < diffOrigin[k].src

\* C10 witness: a context line was dropped while a header or changed line after
\* it was kept.
C10_Witness ==
    \E c \in diffConfigCache :
        /\ diffPc = "once" /\ c.enabled
        /\ \E i, h \in DOMAIN InLines :
              /\ i < h
              /\ IsContext(i)
              /\ \A j \in DOMAIN diffOrigin : diffOrigin[j].src # i
              /\ (isHeaderLine(InLines[h]) \/ isChangeLine(InLines[h]))
              /\ \E j \in DOMAIN diffOrigin : diffOrigin[j].src = h

C12_SimplifiedIffEnabled ==
    (scmLast.op = "getDiff" /\ ~scmLast.threw) =>
        LET stdout == scmLast.args[3]
            enabled == scmLast.args[5]
        IN  IF enabled
            THEN /\ scmLast.warnings = 1
                 /\ \E c \in diffConfigCache :
                        /\ c.enabled
                        /\ scmLast.ret = joinLines(simplifyRun(stdout, c).lines)
            ELSE /\ scmLast.warnings = 0
                 /\ scmLast.ret = stdout

\* getDiff returned a diff that simplification changed, with the warning.
C12_Witness ==
    /\ scmLast.op = "getDiff"
    /\ ~scmLast.threw
    /\ scmLast.args[5]
    /\ scmLast.warnings = 1
    /\ scmLast.ret # scmLast.args[3]

\* C13: commit(message, files) - the repository's commitFiles is invoked, with
\* exactly the given files and message, if and only if a repository is
\* detected and the file list is non-empty; with no repository, or a missing
\* or empty file list, commit throws and commitFiles is not invoked.
C13_CommitIffRepoAndFiles ==
    scmLast.op = "commit" =>
        LET message == scmLast.args[1]
            files == scmLast.args[2]
            repository == scmLast.args[3]
        IN  /\ (scmLast.committed # {}) <=> (repository /\ hasFiles(files))
            /\ scmLast.committed \subseteq {<<files.paths, message>>}
            /\ (~repository \/ ~hasFiles(files)) =>
                    (scmLast.threw /\ scmLast.committed = {})

\* The files and the message of a successful commit went to commitFiles.
C13_Witness ==
    /\ scmLast.op = "commit"
    /\ ~scmLast.threw
    /\ scmLast.committed = {<<(<<"f1", "f2">>), "m1">>}

\* A step in which SvnProvider operation `op` was observed.
ScmStep(op) == scmLast'.op = op /\ (scmLast.op = op => scmLast' # scmLast)

\* C14: with a repository present, setCommitInput(m) makes m the input box's
\* value and getCommitInput returns the value of the input box, hence the
\* message of the latest setCommitInput when nothing else wrote to the box
\* since; neither changes anything but the input box. With no repository both
\* throw and the input box is not written.
C14_InputBoxRoundTrip ==
    [][LET repository == firstRepository(scmApi, scmRepoOpen)
       IN  /\ ScmStep("getCommitInput") =>
                /\ scmLast'.threw = ~repository
                /\ repository => /\ scmLast'.ret = scmInputBox
                                 /\ \A m \in scmWritten : scmLast'.ret = m
                /\ UNCHANGED <<scmInputBox, scmApi, scmRepoOpen, cfgVars, aiVars,
                               diffVars, revVars, provVars>>
           /\ ScmStep("setCommitInput") =>
                /\ scmLast'.threw = ~repository
                /\ repository => scmInputBox' = scmLast'.args[1]
                /\ ~repository => UNCHANGED scmInputBox
                /\ UNCHANGED <<scmApi, scmRepoOpen, cfgVars, aiVars, diffVars,
                               revVars, provVars>>]_vars

\* getCommitInput returned the message setCommitInput had written.
C14_Witness ==
    /\ scmLast.op = "getCommitInput"
    /\ ~scmLast.threw
    /\ scmWritten = {"m1"}
    /\ scmLast.ret = "m1"

\* C15: batch review of N >= 1 files - when execute is done every file's diff
\* collection has run and every collected diff has been reviewed, whatever
\* failed for the other files; if at least one file produced a review the
\* panel is shown with exactly the files that produced one and the batch is
\* not reported as failed; the batch is reported as failed only if no file
\* produced a review.
C15_PartialFailureIsolated ==
    (revPc = "done" /\ revFiles # {}) =>
        LET produced == {f \in revFiles : revReview[f] = "content"}
        IN  /\ \A f \in revFiles : revDiff[f] \in DiffOutcomes
            /\ \A f \in revFiles :
                   revDiff[f] = "diff" => revReview[f] \in ReviewOutcomes
            /\ produced # {} =>
                   (revPanel = {produced} /\ "review.all.failed" \notin revNotes)
            /\ "review.all.failed" \in revNotes =>
                   (produced = {} /\ revPanel = {})

\* Three files: one diff failed, one review failed, the third file's review
\* is the panel's only section.
C15_Witness ==
    /\ revPc = "done"
    /\ revFiles = {1, 2, 3}
    /\ revDiff[1] = "failed"
    /\ revReview[2] = "failed"
    /\ revReview[3] = "content"
    /\ revPanel = {{3}}

\* C16: batch review of 3 files where file 2's diff call throws and files 1
\* and 3 diff and review successfully - the panel has files 1 and 3 only, and
\* the command has issued exactly one warning notification naming file 2.
C16_SecondDiffThrows ==
    (/\ revPc = "done"
     /\ revFiles = {1, 2, 3}
     /\ revDiff[1] = "diff" /\ revDiff[2] = "failed" /\ revDiff[3] = "diff"
     /\ revReview[1] = "content" /\ revReview[3] = "content") =>
        /\ revPanel = {{1, 3}}
        /\ revWarned[2] = 1

\* C17: every failure an operation catches comes with at least one log line
\* or one user notification (here: the probes of the AI provider).
C17_NoSilentCatch ==
    provLast.caught => (provLast.logs + Cardinality(provLast.notes) >= 1)

\* A step in which provider operation `op` was observed.
ProvStep(op) == provLast'.op = op /\ (provLast.op = op => provLast' # provLast)

\* C18: the AI provider's isAvailable returns true if and only if the API key
\* the settings hold at the time of the call is non-empty and resolving it
\* did not fail; it never throws.
C18_AvailableIffKey ==
    [][ProvStep("isAvailable") =>
          /\ ~provLast'.threw
          /\ provLast'.ret =
                (~provLast'.args[1] /\ truthy(store["providers.openai.apiKey"]))]_vars

\* isAvailable answered true for a key that was set after the manager had
\* cached an empty key.
C18_Witness ==
    /\ provLast.op = "isAvailable"
    /\ provLast.ret = TRUE
    /\ configCache["providers.openai.apiKey"] = ""
    /\ store["providers.openai.apiKey"] = "sk"

\* C19: refreshModels never throws - when the listing succeeds it returns the
\* listed ids in the endpoint's order, when the listing fails it returns the
\* empty list and notifies the user; the catalog getModels returns is never
\* changed.
C19_RefreshNeverFails ==
    /\ aiCatalog = StaticCatalog
    /\ provLast.op = "getModels" => provLast.ret = StaticCatalog
    /\ provLast.op = "refreshModels" =>
          /\ ~provLast.threw
          /\ IF provLast.args[1].fails
             THEN /\ provLast.ret = <<>>
                  /\ "openai.models.fetch.failed" \in provLast.notes
             ELSE provLast.ret = provLast.args[1].ids

\* A failed listing was answered with the empty list and a notification.
C19_Witness ==
    /\ provLast.op = "refreshModels"
    /\ provLast.args[1].fails
    /\ provLast.ret = <<>>
    /\ provLast.notes = {"openai.models.fetch.failed"}
    /\ aiCatalog = StaticCatalog

\* The credentials the settings hold for the selected provider.
selectedCredentials(handle) ==
    LET provider == toLowerCase(handle["base.provider"])
    IN  {providerField(handle, provider, "apiKey"),
         providerField(handle, provider, "baseUrl")}

C21_ChangedKeysFresh ==
    cfgLast.op \in {"event", "updateConfig"}
      => \A k \in cfgLast.changed : configCache[k] \in {Absent, store[k]}

\* The schema's leaves under "providers.<P>." for the provider named `name`.
leavesOfProvider(name) ==
    CASE name = "OpenAI" -> {"providers.openai.apiKey"}
      [] name = "Ollama" -> {"providers.ollama.baseUrl"}
      [] OTHER -> {}

\* One reinitialization of provider `name` if a changed leaf lies under its
\* prefix, none otherwise.
onceIfChanged(changed, name) ==
    IF changed \cap leavesOfProvider(name) # {} THEN <<name>> ELSE <<>>

\* C22: a settings-change event with changed leaves refreshes the cache (from
\* the handle held so far), then reloads the handle, then reinitializes
\* providers: provider P is reinitialized if and only if a changed leaf lies
\* under "providers.P.", at most once, and what it can read then is the
\* reloaded handle, which holds the post-change settings.
C22_RefreshReloadReinit ==
    [][(cfgLast'.op \in {"event", "updateConfig"} /\ cfgLast'.changed # {}) =>
          /\ \A k \in cfgLast'.changed :
                configCache'[k] = IF configuration[k] # Undefined
                                  THEN configuration[k] ELSE configCache[k]
          /\ configuration' = store'
          /\ cfgLast'.reinit = onceIfChanged(cfgLast'.changed, "OpenAI")
                               \o onceIfChanged(cfgLast'.changed, "Ollama")
                               \o onceIfChanged(cfgLast'.changed, "ZhipuAI")
                               \o onceIfChanged(cfgLast'.changed, "DashScope")
                               \o onceIfChanged(cfgLast'.changed, "Doubao")
          /\ cfgLast'.reinit # <<>> => cfgLast'.saw = {store'}]_vars

\* An event changed the provider setting and the OpenAI key: OpenAI alone was
\* reinitialized, against the reloaded handle.
C22_Witness ==
    /\ cfgLast.op = "event"
    /\ cfgLast.changed = {"base.provider", "providers.openai.apiKey"}
    /\ cfgLast.reinit = <<"OpenAI">>
    /\ cfgLast.saw = {store}
    /\ configuration = store

\* A step in which a getDiff call that returned was observed.
GetDiffReturned ==
    /\ scmLast'.op = "getDiff" /\ ~scmLast'.threw
    /\ \/ scmLast.op # "getDiff"
       \/ scmLast.threw
       \/ scmLast.args # scmLast'.args
       \/ scmLast.ret # scmLast'.ret

\* C23: the simplifier's cached configuration is invalidated by a settings
\* change - a simplify call (made by getDiff) uses the enabled flag,
\* contextLines and maxLineLength the settings hold at the time of the call,
\* whatever an earlier call cached.
C23_SimplifyUsesCurrentSettings ==
    [][(GetDiffReturned /\ scmLast'.args[5]) =>
          scmLast'.ret = simplify(scmLast'.args[3], getDiffConfig(diffSettings))]_vars

\* C24: a header line resets the consecutive-context-line counter as a changed
\* line does: each of the first contextLines context lines that follow a header
\* line is kept as a context line, whatever preceded the header.
C24_HeaderResetsCounter ==
    \A c \in diffConfigCache :
        (diffPc # "ready" /\ c.enabled)
          => \A h, i \in DOMAIN InLines :
                (/\ isHeaderLine(InLines[h])
                 /\ h < i /\ i - h <= c.contextLines
                 /\ \A k \in (h + 1)..i : IsContext(k))
                  => Produced(i, i, "context") # {}

\* The part of a line after its diff marker, if it has one.
afterMarker(line) ==
    IF line # <<>> /\ Head(line) \in {"+", "-", " "} THEN Tail(line) ELSE line

\* C25: every kept line that was not cut to maxLineLength starts with the diff
\* marker of its input line if that had one and, after the marker, has at most
\* 2 leading whitespace characters, no two adjacent whitespace characters in
\* the rest, and no whitespace at its end.
C25_CompressedLineShape ==
    \A c \in diffConfigCache :
        (diffPc # "ready" /\ c.enabled)
          => \A j \in DOMAIN diffOrigin :
                LET in == InLines[diffOrigin[j].src]
                    out == OutLines[j]
                    body == afterMarker(out)
                    indent == leadingWhitespace(body)
                IN  (diffOrigin[j].kind # "marker"
                       /\ Len(compressLine(in)) <= c.maxLineLength)
                      => /\ afterMarker(in) # in
                              => (out # <<>> /\ Head(out) = Head(in))
                         /\ indent <= 2
                         /\ \A i \in (indent + 1)..(Len(body) - 1) :
                               ~(body[i] \in Whitespace /\ body[i + 1] \in Whitespace)
                         /\ body # <<>> => body[Len(body)] \notin Whitespace

\* The input budget of attempt i of generateResponse for a model whose input
\* limit is modelInput (0 when it gives none).
RECURSIVE budgetAt(_, _)
budgetAt(modelInput, i) ==
    IF i = 1 THEN (IF modelInput # 0 THEN modelInput ELSE 16385)
    ELSE (budgetAt(modelInput, i - 1) * 4) \div 5

\* C26: generateResponse makes at most 3 vendor calls and is over after the
\* third; attempt 1 sends the first b0 characters of the diff, b0 the model's
\* input limit or 16385, and attempt i + 1 the first floor(0.8 * budget of
\* attempt i) characters: the budget never grows and what is sent is a prefix
\* of the diff no longer than the budget.
C26_ShrinkingBudget ==
    aiPc # "idle"
      => /\ Len(aiSent) \in 1..3
         /\ Len(aiOutcomes) <= Len(aiSent)
         /\ Len(aiOutcomes) = 3 => aiPc \in {"returned", "thrown"}
         /\ aiPc = "calling" => Len(aiOutcomes) = Len(aiSent) - 1
         /\ maxInputLength = budgetAt(aiModelInput, Len(aiSent))
         /\ \A i \in DOMAIN aiSent :
               /\ aiSent[i] = SubSeq(aiDiff, 1, Len(aiSent[i]))
               /\ Len(aiSent[i]) = Min(Len(aiDiff), budgetAt(aiModelInput, i))
               /\ i > 1 => /\ budgetAt(aiModelInput, i) <= budgetAt(aiModelInput, i - 1)
                           /\ Len(aiSent[i]) <= Len(aiSent[i - 1])

\* C26 witness: three attempts on a diff of 16386 characters for a model that
\* gives no input limit sent its first 16385, 13108 and 10486 characters, and
\* the call is over.
C26_Witness ==
    /\ aiPc = "thrown" /\ Len(aiOutcomes) = 3
    /\ aiModelInput = 0 /\ Len(aiDiff) = 16386
    /\ Len(aiSent[1]) = 16385 /\ Len(aiSent[2]) = 13108 /\ Len(aiSent[3]) = 10486
    /\ \A i \in 1..3 : aiSent[i] = SubSeq(aiDiff, 1, Len(aiSent[i]))

\* The files whose review call has been started.
reviewStarted == {f \in Files : revReview[f] # "none"}

\* C27: batch review - no review call is started while a diff collection is
\* still pending, the panel is shown only when no started review is pending,
\* and the files reviewed are exactly those whose diff collection returned a
\* non-empty diff.
C27_TwoPhaseBarrier ==
    /\ reviewStarted # {} => \A f \in revFiles : revDiff[f] \in DiffOutcomes
    /\ revPanel # {} => \A f \in reviewStarted : revReview[f] \in ReviewOutcomes
    /\ (revPc = "reviewing" \/ reviewStarted # {})
         => reviewStarted = {f \in revFiles : revDiff[f] = "diff"}
    /\ revPc = "diffing" => reviewStarted = {} /\ revPanel = {}
    /\ revPc = "reviewing" => revPanel = {}

\* C27 witness: of three files, the second had no diff; the other two were
\* reviewed, the third one's review failed, and the panel shows the first.
C27_Witness ==
    /\ revPc = "done" /\ revFiles = 1..3
    /\ revDiff = <<"diff", "empty", "diff">>
    /\ revReview = <<"content", "none", "failed">>
    /\ revPanel = {{1}}

\* The manager objects whose change listener is subscribed.
liveInstances == {i \in Instances : lifeObjs[i].subscribed}

\* C28: at most one manager object is live at a time and it is the one
\* getInstance returns; dispose leaves its object with an empty cache and no
\* listener and no live object behind; a settings change touches no disposed
\* object; the object getInstance constructs starts with an empty cache and a
\* subscribed listener.
C28_SingleLiveInstance ==
    /\ Cardinality(liveInstances) <= 1
    /\ liveInstances = IF lifeInstance = NoInstance THEN {} ELSE {lifeInstance}
    /\ lifeLast.op = "getInstance"
         => /\ lifeLast.inst = lifeInstance
            /\ lifeLast.constructed
                 => /\ lifeObjs[lifeInstance].configCache = EmptyCache
                    /\ lifeObjs[lifeInstance].subscribed
    /\ lifeLast.op = "dispose"
         => /\ lifeInstance = NoInstance
            /\ lifeObjs[lifeLast.inst].configCache = EmptyCache
            /\ ~lifeObjs[lifeLast.inst].subscribed
    /\ lifeLast.op = "event"
         => lifeLast.reinit \subseteq liveInstances /\ lifeLast.wrote \subseteq liveInstances
    /\ \A i \in Instances :
          (lifeObjs[i].created /\ ~lifeObjs[i].subscribed)
            => lifeObjs[i].configCache = EmptyCache

====
